---- MODULE Spec2Model ----
(***************************************************************************)
(* Model of src/clutseratcc2.py (the Python program, lines 1-276): the     *)
(* ephemeral-runner inventory, its reports and its confirm-then-delete     *)
(* workflow.  The external tools (tkgi, kubectl, bash) are the             *)
(* environment: their results are chosen nondeterministically.             *)
(*                                                                         *)
(* Text is modelled by TLA+ strings.  A line of kubectl output is the      *)
(* sequence of its whitespace-separated fields (what line.split()          *)
(* returns), an output is the sequence of its lines (what                  *)
(* output.strip().splitlines() returns).                                   *)
(***************************************************************************)
EXTENDS Integers, Sequences, FiniteSets, Bags, TLC

VARIABLES
    pc,            \* position of the main thread in main()
    catalog,       \* CSV_FILE on disk: [exists, rows]
    args,          \* the parsed command line: [option, org_filter, all_orgs]
    kubectl,       \* what a workload query can answer in this run (environment)
    clusters,      \* read_clusters_and_namespaces(): sequence of [key, namespaces]
    ci,            \* index in clusters of the cluster the collection loop is at
    context,       \* cluster the kubeconfig points at (last successful tkgi)
    futures,       \* the futures submitted so far: <<cluster index, ns>> -> [st, exc, rows]
    OUTPUT_FILE,   \* rows of the timestamped report file (header first)
    TEMP_OUTPUT,   \* rows of the canonical report file
    authLog,       \* bag of the authenticate() calls so far: [key, ok, phase, cmd]
    queryLog,      \* bag of the kubectl queries answered so far: [key, ns, context, out, phase]
    rows,          \* rows read back from TEMP_OUTPUT for reporting
    report,        \* what the selected report computed
    delete_script, \* /tmp/delete_<status>_runners.sh: [written, name, cmds]
    confirm,       \* the operator's answer: [typed, value], value stripped and lower-cased
    bash,          \* the run of the delete script: [started, line, attempted, failed, last]
    credentials    \* what prompt_credentials() returned: [username, password]

vars == <<pc, catalog, args, kubectl, clusters, ci, context, futures, OUTPUT_FILE,
          TEMP_OUTPUT, authLog, queryLog, rows, report, delete_script, confirm, bash,
          credentials>>

----------------------------------------------------------------------------
(* Bounds of the model *)

\* namespaces of a catalog of one cluster
MaxNamespaces == 2
\* namespaces of the one large cluster of the worker-pool specification
PoolNamespaces == 11

(* Program constants *)

MAX_PARALLEL == 10

\* now = datetime.now(timezone.utc), in seconds after 2026-01-01T00:00:00Z
now == 600

----------------------------------------------------------------------------
(* Sequence helpers *)

Range(s) == {s[i] : i \in 1..Len(s)}

RECURSIVE SelectIdx(_, _, _)
\* the elements of s at the indexes in keep, in the order of s
SelectIdx(s, keep, i) ==
    IF i > Len(s) THEN <<>>
    ELSE (IF i \in keep THEN <<s[i]>> ELSE <<>>) \o SelectIdx(s, keep, i + 1)

Min(S) == CHOOSE x \in S : \A y \in S : x <= y

----------------------------------------------------------------------------
(* Text functions of the Python runtime, on the texts of the model *)

\* str.lower()
lower(s) ==
    CASE s = "Running" -> "running"
      [] s = "Failed" -> "failed"
      [] s = "Pending" -> "pending"
      [] s = "Acme" -> "acme"
      [] s = "ACME" -> "acme"
      [] s = "Other" -> "other"
      [] s = "Y" -> "y"
      [] s = "N" -> "n"
      [] s = "YES" -> "yes"
      [] s = "Yes" -> "yes"
      [] OTHER -> s

\* str.strip()
strip_none(s) == s

strip(s) ==
    CASE s = " y " -> "y"
      [] s = "yes " -> "yes"
      [] s = " " -> ""
      [] OTHER -> s

\* config_url.split('/')
split_slash(config_url) ==
    CASE config_url = "https://github.com/acme" -> <<"https:", "", "github.com", "acme">>
      [] config_url = "https://github.com/Acme" -> <<"https:", "", "github.com", "Acme">>
      [] config_url = "https://github.com/other" -> <<"https:", "", "github.com", "other">>
      [] config_url = "https://github.com/acme/repo" ->
             <<"https:", "", "github.com", "acme", "repo">>
      [] config_url = "https://github.com" -> <<"https:", "", "github.com">>
      [] config_url = "github.com/acme" -> <<"github.com", "acme">>
      [] OTHER -> <<config_url>>

\* datetime.strptime(creation_ts, "%Y-%m-%dT%H:%M:%SZ") succeeds
strptime_ok(creation_ts) ==
    creation_ts \in {"2026-01-01T00:05:00Z", "2026-01-01T00:09:30Z",
                     "2026-01-01T00:10:00Z", "2026-01-01T00:10:30Z",
                     "2025-12-31T23:00:00Z"}

\* the parsed instant, in seconds after 2026-01-01T00:00:00Z
strptime(creation_ts) ==
    CASE creation_ts = "2026-01-01T00:05:00Z" -> 300
      [] creation_ts = "2026-01-01T00:09:30Z" -> 570
      [] creation_ts = "2026-01-01T00:10:00Z" -> 600
      [] creation_ts = "2026-01-01T00:10:30Z" -> 630
      [] creation_ts = "2025-12-31T23:00:00Z" -> -3600

\* int(x / 60) for a whole number of seconds x: truncation toward zero
int_div60(x) == IF x >= 0 THEN x \div 60 ELSE -((-x) \div 60)

----------------------------------------------------------------------------
(* process_namespace, lines 44-74 *)

Header == <<"Cluster", "API_Endpoint", "Namespace", "Runner_Name", "GitHub_Config_URL",
            "Org_Name", "Runner_ID", "Age", "Status">>

\* lines 61-66: the age label
Age_unparsed_as_zero(creation_ts) ==
    IF strptime_ok(creation_ts)
    THEN ToString(int_div60(now - strptime(creation_ts))) \o "m"
    ELSE "0m"

Age(creation_ts) ==
    IF strptime_ok(creation_ts)
    THEN ToString(int_div60(now - strptime(creation_ts))) \o "m"
    ELSE "N/A"

\* lines 67-72: the status classifier
StatusNoZeroTest(ready, total) ==
    IF ready = total /\ ready # "" /\ total # "" THEN "Running"
    ELSE IF ready = "0" THEN "Failed"
    ELSE "Pending"

Status(ready, total) ==
    IF ready = total /\ ready # "" /\ total # "" /\ ready # "0" THEN "Running"
    ELSE IF ready = "0" THEN "Failed"
    ELSE "Pending"

\* lines 56-73: one line of the output; [exc, skip, row]
process_line(cluster_name, api_endpoint, ns, parts) ==
    IF Len(parts) < 6 THEN [exc |-> "", skip |-> TRUE, row |-> Header]
    ELSE IF Len(parts) > 6
    THEN \* line 59: too many values to unpack
         [exc |-> "ValueError", skip |-> FALSE, row |-> Header]
    ELSE LET name == parts[1]
             config_url == parts[2]
             runner_id == parts[3]
             ready == parts[4]
             total == parts[5]
             creation_ts == parts[6]
             segs == split_slash(config_url)
         IN  IF Len(segs) > 1 /\ Len(segs) < 4
             THEN \* line 60: split('/')[3] of a URL with fewer than four segments
                  [exc |-> "IndexError", skip |-> FALSE, row |-> Header]
             ELSE LET org_name == IF Len(segs) > 1 THEN segs[4] ELSE ""
                  IN  [exc |-> "", skip |-> FALSE,
                       row |-> <<cluster_name, api_endpoint, ns, name, config_url,
                                 org_name, runner_id, Age(creation_ts),
                                 Status(ready, total)>>]

RECURSIVE parse_lines(_, _, _, _, _)
\* lines 54-74: the loop over the lines from line i on; [exc, rows]
parse_lines(cluster_name, api_endpoint, ns, lines, i) ==
    IF i > Len(lines) THEN [exc |-> "", rows |-> <<>>]
    ELSE LET r == process_line(cluster_name, api_endpoint, ns, lines[i])
         IN  IF r.exc # "" THEN [exc |-> r.exc, rows |-> <<>>]
             ELSE LET rest == parse_lines(cluster_name, api_endpoint, ns, lines, i + 1)
                  IN  IF rest.exc # "" THEN rest
                      ELSE [exc |-> "",
                            rows |-> (IF r.skip THEN <<>> ELSE <<r.row>>) \o rest.rows]

\* lines 44-74: what the scan returns ([exc |-> "", rows]) or raises ([exc, <<>>])
\* for the answer `out` of the query command
process_namespace(cluster_name, api_endpoint, ns, out) ==
    CASE out.kind = "CalledProcessError" -> [exc |-> "", rows |-> <<>>]
      [] out.kind = "OSError" -> [exc |-> "OSError", rows |-> <<>>]
      [] out.kind = "ok" -> parse_lines(cluster_name, api_endpoint, ns, out.lines, 1)

----------------------------------------------------------------------------
(* read_clusters_and_namespaces, lines 23-31 *)

RECURSIVE read_rows(_, _, _)
\* the dict after the rows from i on were added to `acc`; a dict keeps its keys in
\* insertion order, modelled as a sequence of [key, namespaces, order], where
\* order is the order in which the namespace set is iterated (line 106)
read_rows(csv_rows, i, acc) ==
    IF i > Len(csv_rows) THEN acc
    ELSE LET key == <<csv_rows[i][1], csv_rows[i][2]>>
             ns == csv_rows[i][3]
             at == {j \in 1..Len(acc) : acc[j].key = key}
         IN  IF at = {}
             THEN read_rows(csv_rows, i + 1,
                     Append(acc, [key |-> key, namespaces |-> {ns}, order |-> <<ns>>]))
             ELSE LET j == CHOOSE j \in at : TRUE
                  IN  read_rows(csv_rows, i + 1,
                          [acc EXCEPT ![j] =
                              [key |-> key,
                               namespaces |-> acc[j].namespaces \cup {ns},
                               order |-> IF ns \in acc[j].namespaces THEN acc[j].order
                                         ELSE Append(acc[j].order, ns)]])

read_clusters_and_namespaces(csv_rows) == read_rows(csv_rows, 1, <<>>)

----------------------------------------------------------------------------
(* The executor of lines 105-110 *)

NoFutures == [f \in {} |-> [st |-> "pending", exc |-> "", rows |-> <<>>]]

InState(st) == {f \in DOMAIN futures : futures[f].st = st}

\* scans started and not yet finished
InFlight == InState("running")

\* the executor still has work: __exit__ (shutdown(wait=True)) blocks
Busy == InState("pending") \cup InState("running") # {}

\* the work queue is first in, first out: the next scan to start
NextPending ==
    LET order == clusters[ci].order
    IN  <<ci, order[Min({i \in 1..Len(order) : futures[<<ci, order[i]>>].st = "pending"})]>>

\* line 105, max_workers=MAX_PARALLEL: a thread is free to take a scan
may_start_unbounded(running) == TRUE

may_start(running) == running < MAX_PARALLEL

\* lines 109-110: the rows of one finished scan go to the report file
writerows_first(file, results) ==
    IF results = <<>> THEN file ELSE Append(file, results[1])

writerows_after_header(file, results) == <<file[1]>> \o results \o Tail(file)

writerows(file, results) == file \o results

----------------------------------------------------------------------------
(* main, lines 76-113: start-up and the collection phase *)

\* line 77: os.path.isfile(CSV_FILE)
isfile_always(file) == TRUE

isfile(file) == file.exists

\* lines 77-79
CheckFile ==
    /\ pc = "start"
    /\ pc' = IF isfile(catalog) THEN "prompt" ELSE "exit1"
    /\ UNCHANGED <<catalog, args, kubectl, clusters, ci, context, futures, OUTPUT_FILE,
                   TEMP_OUTPUT, authLog, queryLog, rows, report, delete_script,
                   confirm, bash,
                   credentials>>

\* lines 16 and 20: what the operator may type at the two prompts
Usernames == {"", "admin"}
Passwords == {"secret"}

\* lines 81-91: the credentials (asked again while the username is empty), the
\* catalog and the arguments
ReadInputs ==
    /\ pc = "prompt"
    /\ \E username \in Usernames, password \in Passwords :
          IF username = ""
          THEN UNCHANGED <<pc, clusters, credentials>>
          ELSE /\ credentials' = [username |-> username, password |-> password]
               /\ clusters' = read_clusters_and_namespaces(catalog.rows)
               /\ pc' = "open"
    /\ UNCHANGED <<catalog, args, kubectl, ci, context, futures, OUTPUT_FILE,
                   TEMP_OUTPUT, authLog, queryLog, rows, report, delete_script,
                   confirm, bash>>

\* lines 94-96: the report file is created with its header
OpenOutput ==
    /\ pc = "open"
    /\ OUTPUT_FILE' = <<Header>>
    /\ ci' = 1
    /\ pc' = "cluster"
    /\ UNCHANGED <<catalog, args, kubectl, clusters, context, futures,
                   TEMP_OUTPUT, authLog, queryLog, rows, report, delete_script,
                   confirm, bash,
                   credentials>>

\* lines 33-42: tkgi get-kubeconfig; a success points the kubeconfig at the cluster
\* (the command line is all the tkgi process is given: subprocess.run(cmd))
authenticate(key, username, password, ok, phase) ==
    /\ authLog' = authLog (+) SetToBag({[key |-> key, ok |-> ok, phase |-> phase,
                                         cmd |-> <<"tkgi", "get-kubeconfig", key[1],
                                                   "-u", username, "-a", key[2], "-k">>]})
    /\ context' = IF ok THEN key ELSE context

\* lines 51 and 146: kubectl answered `out` for namespace ns, asked on behalf of
\* cluster `key` while the kubeconfig pointed at `context`
query(key, ns, out, phase) ==
    queryLog' = queryLog (+) SetToBag({[key |-> key, ns |-> ns, context |-> context,
                                         out |-> out, phase |-> phase]})

\* lines 102-104: the cluster is skipped when its authentication failed
skip_cluster_never(ok) == FALSE

skip_cluster(ok) == ~ok

\* lines 97-104: the next cluster of the catalog is authenticated
Authenticate ==
    /\ pc = "cluster"
    /\ ci <= Len(clusters)
    /\ \E ok \in BOOLEAN :
          /\ authenticate(clusters[ci].key, credentials.username, credentials.password,
                          ok, "collect")
          /\ IF skip_cluster(ok) THEN pc' = "cluster" /\ ci' = ci + 1
                                  ELSE pc' = "submit" /\ ci' = ci
    /\ UNCHANGED <<catalog, args, kubectl, clusters, futures, OUTPUT_FILE,
                   TEMP_OUTPUT, queryLog, rows, report, delete_script, confirm, bash,
                   credentials>>

\* lines 105-106: one future per namespace of the cluster
Submit ==
    /\ pc = "submit"
    /\ futures' = [f \in DOMAIN futures \cup {<<ci, ns>> : ns \in clusters[ci].namespaces} |->
                      IF f \in DOMAIN futures THEN futures[f]
                      ELSE [st |-> "pending", exc |-> "", rows |-> <<>>]]
    /\ pc' = "as_completed"
    /\ UNCHANGED <<catalog, args, kubectl, clusters, ci, context, OUTPUT_FILE,
                   TEMP_OUTPUT, authLog, queryLog, rows, report, delete_script,
                   confirm, bash,
                   credentials>>

\* a worker thread takes the next scan of the queue: at most MAX_PARALLEL threads
\* exist; lines 45-51: the scan starts kubectl in the current context
StartScan ==
    /\ InState("pending") # {}
    /\ may_start(Cardinality(InFlight))
    /\ futures' = [futures EXCEPT ![NextPending].st = "running"]
    /\ UNCHANGED <<pc, catalog, args, kubectl, clusters, ci, context, OUTPUT_FILE,
                   TEMP_OUTPUT, authLog, queryLog, rows, report, delete_script,
                   confirm, bash,
                   credentials>>

\* lines 51-74: kubectl answers and the scan returns its rows or raises
FinishScan ==
    /\ \E f \in InFlight, out \in kubectl :
          LET key == clusters[f[1]].key
              r == process_namespace(key[1], key[2], f[2], out)
          IN  /\ futures' = [futures EXCEPT ![f] =
                                 [st |-> "finished", exc |-> r.exc, rows |-> r.rows]]
              /\ query(key, f[2], out, "collect")
    /\ UNCHANGED <<pc, catalog, args, kubectl, clusters, ci, context, OUTPUT_FILE,
                   TEMP_OUTPUT, authLog, rows, report, delete_script, confirm, bash,
                   credentials>>

\* lines 107-110: as_completed yields a finished future; result() returns its rows,
\* which are written, or raises what the scan raised
Consume ==
    /\ pc = "as_completed"
    /\ \E f \in InState("finished") :
          /\ futures' = [futures EXCEPT ![f].st = "yielded"]
          /\ IF futures[f].exc # ""
             THEN pc' = "raising" /\ UNCHANGED OUTPUT_FILE
             ELSE pc' = pc /\ OUTPUT_FILE' = writerows(OUTPUT_FILE, futures[f].rows)
    /\ UNCHANGED <<catalog, args, kubectl, clusters, ci, context,
                   TEMP_OUTPUT, authLog, queryLog, rows, report, delete_script,
                   confirm, bash,
                   credentials>>

\* line 107: as_completed(futures) ends once it has yielded every future
as_completed_all_started == \A f \in DOMAIN futures : futures[f].st # "pending"

as_completed_exhausted == \A f \in DOMAIN futures : futures[f].st = "yielded"

\* line 105, end of the with block: every future was yielded; on to the next cluster
ExecutorExit ==
    /\ pc = "as_completed"
    /\ as_completed_exhausted
    /\ ci' = ci + 1
    /\ pc' = "cluster"
    /\ UNCHANGED <<catalog, args, kubectl, clusters, context, futures, OUTPUT_FILE,
                   TEMP_OUTPUT, authLog, queryLog, rows, report, delete_script,
                   confirm, bash,
                   credentials>>

\* line 108 raised: the with blocks unwind (the executor waits for its scans, the
\* file is closed) and the process ends with a traceback
Traceback ==
    /\ pc = "raising"
    /\ ~Busy
    /\ pc' = "traceback"
    /\ UNCHANGED <<catalog, args, kubectl, clusters, ci, context, futures, OUTPUT_FILE,
                   TEMP_OUTPUT, authLog, queryLog, rows, report, delete_script,
                   confirm, bash,
                   credentials>>

\* line 97: the loop over clusters.items() has no cluster left
clusters_exhausted_early == ci > 1

clusters_exhausted == ci > Len(clusters)

\* lines 111-113: the report file is closed and copied to the canonical file
FinishCollection ==
    /\ pc = "cluster"
    /\ clusters_exhausted
    /\ TEMP_OUTPUT' = OUTPUT_FILE
    /\ pc' = "report"
    /\ UNCHANGED <<catalog, args, kubectl, clusters, ci, context, futures, OUTPUT_FILE,
                   authLog, queryLog, rows, report, delete_script, confirm, bash,
                   credentials>>

----------------------------------------------------------------------------
(* main, lines 115-273: reporting and deletion *)

\* csv.DictReader: the value of the column called `name` in the header
field(header, row, name) == row[CHOOSE i \in 1..Len(header) : header[i] = name]

\* lines 178-180: the rows of the canonical file as dicts keyed by its header
DictReader(file) == [i \in 1..(Len(file) - 1) |->
                        [name \in Range(file[1]) |-> field(file[1], file[i + 1], name)]]

\* str.replace(old, new) on the option texts
replace(s, old, new) ==
    CASE old = "-" /\ new = "" /\ s = "-running" -> "running"
      [] old = "-" /\ new = "" /\ s = "-pending" -> "pending"
      [] old = "-" /\ new = "" /\ s = "-failed" -> "failed"
      [] old = "-Delete" /\ new = "" /\ s = "-DeletePending" -> "Pending"
      [] old = "-Delete" /\ new = "" /\ s = "-DeleteFailed" -> "Failed"
      [] old = "Delete" /\ new = "" /\ s = "DeletePending" -> "Pending"
      [] old = "Delete" /\ new = "" /\ s = "DeleteFailed" -> "Failed"
      [] OTHER -> s

\* lines 198-201: the counters of an organization after one more row
count_row_no_pending(stats, status) ==
    LET t == [stats EXCEPT !.total = @ + 1]
    IN  IF status = "running" THEN [t EXCEPT !.running = @ + 1]
        ELSE IF status = "failed" THEN [t EXCEPT !.failed = @ + 1]
        ELSE t

count_row(stats, status) ==
    LET t == [stats EXCEPT !.total = @ + 1]
    IN  IF status = "running" THEN [t EXCEPT !.running = @ + 1]
        ELSE IF status = "failed" THEN [t EXCEPT !.failed = @ + 1]
        ELSE IF status = "pending" THEN [t EXCEPT !.pending = @ + 1]
        ELSE t

RECURSIVE summary_loop(_, _, _)
\* lines 193-201: the summary dict after the rows from i on
summary_loop(rs, i, summary) ==
    IF i > Len(rs) THEN summary
    ELSE LET org == lower(rs[i]["Org_Name"])
             status == lower(rs[i]["Status"])
             old == IF org \in DOMAIN summary THEN summary[org]
                    ELSE [running |-> 0, failed |-> 0, pending |-> 0, total |-> 0]
             new == count_row(old, status)
         IN  summary_loop(rs, i + 1,
                 [o \in DOMAIN summary \cup {org} |-> IF o = org THEN new ELSE summary[o]])

RECURSIVE grand_loop(_, _, _)
\* lines 202-205: the grand totals over the organizations in `todo`
grand_loop(summary, todo, grand) ==
    IF todo = {} THEN grand
    ELSE LET org == CHOOSE o \in todo : TRUE
         IN  grand_loop(summary, todo \ {org},
                 [k \in DOMAIN grand |-> grand[k] + summary[org][k]])

\* lines 187-207
summary_report(rs) ==
    LET summary == summary_loop(rs, 1, [o \in {} |-> 0])
    IN  [kind |-> "summary", summary |-> summary,
         grand |-> grand_loop(summary, DOMAIN summary,
                      [running |-> 0, failed |-> 0, pending |-> 0, total |-> 0])]

\* line 221: the test of the status-filtered report
report_selects_filter_first(row, status_lc, org_filter, all_orgs) ==
    /\ lower(row["Status"]) = status_lc
    /\ (org_filter = "" \/ org_filter = lower(row["Org_Name"]))

report_selects(row, status_lc, org_filter, all_orgs) ==
    /\ lower(row["Status"]) = status_lc
    /\ (all_orgs \/ org_filter = "" \/ org_filter = lower(row["Org_Name"]))

\* lines 209-231: the selected rows in file order, the count per organization and
\* the grand total
status_report(rs, option, a) ==
    LET status_lc == lower(replace(option, "-", ""))
        org_filter == IF a.org_filter # "" THEN lower(a.org_filter) ELSE ""
        sel == {i \in 1..Len(rs) : report_selects(rs[i], status_lc, org_filter, a.all_orgs)}
        runners == SelectIdx(rs, sel, 1)
        keys == {rs[i]["Org_Name"] : i \in sel}
    IN  [kind |-> "status", runners |-> runners,
         count |-> [org \in keys |-> Cardinality({i \in sel : rs[i]["Org_Name"] = org})],
         grand_total |-> Cardinality(sel)]

\* line 246: the test of the delete modes
delete_selects_any_org(row, status, org_filter, all_orgs) ==
    lower(row["Status"]) = status

delete_selects(row, status, org_filter, all_orgs) ==
    /\ lower(row["Status"]) = status
    /\ (all_orgs \/ org_filter = "" \/ org_filter = lower(row["Org_Name"]))

\* line 254: one command line of the script
delete_cmd(row) ==
    <<"tkgi get-kubeconfig", row["Cluster"], "&&", "kubectl -n", row["Namespace"],
      "delete pod", row["Runner_Name"]>>

\* line 234
delete_status(option) == lower(replace(replace(option, "-Delete", ""), "Delete", ""))

\* lines 233-260: the listing and the commands, in file order
delete_plan(rs, option, a) ==
    LET status == delete_status(option)
        org_filter == IF a.org_filter # "" THEN lower(a.org_filter) ELSE ""
        sel == {i \in 1..Len(rs) : delete_selects(rs[i], status, org_filter, a.all_orgs)}
        picked == SelectIdx(rs, sel, 1)
    IN  [kind |-> "delete", runners |-> picked,
         grand_total |-> Cardinality(sel),
         delete_cmds |-> [i \in 1..Len(picked) |-> delete_cmd(picked[i])]]

NoReport == [kind |-> "none"]

\* lines 116-128: no option, the usage text
Usage ==
    /\ pc = "report"
    /\ args.option = ""
    /\ pc' = "exit0"
    /\ UNCHANGED <<catalog, args, kubectl, clusters, ci, context, futures, OUTPUT_FILE,
                   TEMP_OUTPUT, authLog, queryLog, rows, report, delete_script,
                   confirm, bash,
                   credentials>>

\* lines 177-180: every mode but details reads the canonical file
ReadSnapshot ==
    /\ pc = "report"
    /\ args.option \notin {"", "details", "-details"}
    /\ rows' = DictReader(TEMP_OUTPUT)
    /\ pc' = "dispatch"
    /\ UNCHANGED <<catalog, args, kubectl, clusters, ci, context, futures, OUTPUT_FILE,
                   TEMP_OUTPUT, authLog, queryLog, report, delete_script,
                   confirm, bash,
                   credentials>>

\* lines 187-207
Summary ==
    /\ pc = "dispatch"
    /\ args.option \in {"summary", "-summary"}
    /\ report' = summary_report(rows)
    /\ pc' = "done"
    /\ UNCHANGED <<catalog, args, kubectl, clusters, ci, context, futures, OUTPUT_FILE,
                   TEMP_OUTPUT, authLog, queryLog, rows, delete_script, confirm, bash,
                   credentials>>

\* lines 209-231
StatusReport ==
    /\ pc = "dispatch"
    /\ args.option \in {"running", "-running", "pending", "-pending", "failed", "-failed"}
    /\ report' = status_report(rows, args.option, args)
    /\ pc' = "done"
    /\ UNCHANGED <<catalog, args, kubectl, clusters, ci, context, futures, OUTPUT_FILE,
                   TEMP_OUTPUT, authLog, queryLog, rows, delete_script, confirm, bash,
                   credentials>>

\* lines 262-264: the script file, opened with "w" and written with the joined
\* commands
write_script_but_last(status, delete_cmds) ==
    [written |-> TRUE,
     name |-> <<"/tmp/delete_", status, "_runners.sh">>,
     cmds |-> SubSeq(delete_cmds, 1, Len(delete_cmds) - 1)]

write_script(status, delete_cmds) ==
    [written |-> TRUE,
     name |-> <<"/tmp/delete_", status, "_runners.sh">>,
     cmds |-> delete_cmds]

\* lines 233-265: the plan is listed and written to the script file
DeletePlan ==
    /\ pc = "dispatch"
    /\ args.option \in {"DeletePending", "-DeletePending", "DeleteFailed", "-DeleteFailed"}
    /\ report' = delete_plan(rows, args.option, args)
    /\ delete_script' = write_script(delete_status(args.option), report'.delete_cmds)
    /\ pc' = "confirm"
    /\ UNCHANGED <<catalog, args, kubectl, clusters, ci, context, futures, OUTPUT_FILE,
                   TEMP_OUTPUT, authLog, queryLog, rows, confirm, bash,
                   credentials>>

\* no line of the script was run
NoBash == [started |-> FALSE, line |-> 0, attempted |-> 0, failed |-> FALSE,
           last |-> [at |-> 0, cmd |-> <<>>, tkgi |-> FALSE, kubectl |-> "not run"]]

\* what the operator may type at the prompt
Typed == {"y", "Y", " y ", "yes", "YES", "yes ", "n", "N", "", " "}

\* line 267: the answer that starts the execution
confirmed_any(answer) == TRUE

confirmed(answer) == answer = "y"

\* lines 266-273
Confirm ==
    /\ pc = "confirm"
    /\ \E typed \in Typed :
          /\ confirm' = [typed |-> typed, value |-> lower(strip(typed))]
          /\ IF confirmed(confirm'.value)
             THEN pc' = "bash" /\ bash' = [NoBash EXCEPT !.started = TRUE, !.line = 1]
             ELSE pc' = "done" /\ UNCHANGED bash
    /\ UNCHANGED <<catalog, args, kubectl, clusters, ci, context, futures, OUTPUT_FILE,
                   TEMP_OUTPUT, authLog, queryLog, rows, report, delete_script,
                   credentials>>

\* line 254, `tkgi ... && kubectl ...`: kubectl runs only when tkgi succeeded
and_then(tkgi_ok) == tkgi_ok

\* line 270, `bash script`: the line bash runs after line `line` ended with exit
\* status `ok`; bash goes on whatever the status (no `set -e` in the script)
bash_next_errexit(line, ok) == IF ok THEN line + 1 ELSE 0

bash_next(line, ok) == line + 1

\* line 270: bash runs the next line of the script.  bash.attempted counts the
\* lines run, bash.failed tells whether one of them failed, bash.last is the
\* line run last
BashLine ==
    /\ pc = "bash"
    /\ bash.line \in 1..Len(delete_script.cmds)
    /\ \E tkgi_ok \in BOOLEAN, delete_ok \in BOOLEAN :
          LET cmd == delete_script.cmds[bash.line]
              kubectl_run == and_then(tkgi_ok)
              ok == tkgi_ok /\ kubectl_run /\ delete_ok
          IN  /\ bash' = [started |-> TRUE,
                          line |-> bash_next(bash.line, ok),
                          attempted |-> bash.attempted + 1,
                          failed |-> bash.failed \/ ~ok,
                          last |-> [at |-> bash.line, cmd |-> cmd, tkgi |-> tkgi_ok,
                                    kubectl |-> IF ~kubectl_run THEN "not run"
                                                ELSE IF delete_ok THEN "deleted"
                                                ELSE "failed"]]
              /\ context' = IF tkgi_ok THEN <<cmd[2], "">> ELSE context
    /\ UNCHANGED <<pc, catalog, args, kubectl, clusters, ci, futures, OUTPUT_FILE,
                   TEMP_OUTPUT, authLog, queryLog, rows, report, delete_script, confirm,
                   credentials>>

\* lines 270-271: the script ended
BashExit ==
    /\ pc = "bash"
    /\ bash.line \notin 1..Len(delete_script.cmds)
    /\ pc' = "done"
    /\ UNCHANGED <<catalog, args, kubectl, clusters, ci, context, futures, OUTPUT_FILE,
                   TEMP_OUTPUT, authLog, queryLog, rows, report, delete_script,
                   confirm, bash,
                   credentials>>

----------------------------------------------------------------------------
(* main, lines 129-175: the details mode *)

\* line 152: lines[0].strip().startswith("NAME")
startswith_NAME(line) == Len(line) > 0 /\ line[1] \in {"NAME", "NAMESPACE"}

\* lines 157-166: the runner lines whose 4th column is "1"
running_lines(runner_lines) ==
    {i \in 1..Len(runner_lines) : Len(runner_lines[i]) >= 4 /\ runner_lines[i][4] = "1"}

\* line 129: the loop over the clusters starts
Details ==
    /\ pc = "report"
    /\ args.option \in {"details", "-details"}
    /\ ci' = 1
    /\ report' = [kind |-> "details", ni |-> 0, ns_checked |-> 0, total_runners |-> 0,
                  running_count |-> 0, not_running_count |-> 0, printed |-> <<>>]
    /\ pc' = "details"
    /\ UNCHANGED <<catalog, args, kubectl, clusters, context, futures, OUTPUT_FILE,
                   TEMP_OUTPUT, authLog, queryLog, rows, delete_script, confirm, bash,
                   credentials>>

\* lines 130-141: the next cluster is authenticated again
DetailsAuthenticate ==
    /\ pc = "details"
    /\ ci <= Len(clusters)
    /\ \E ok \in BOOLEAN :
          /\ authenticate(clusters[ci].key, credentials.username, credentials.password,
                          ok, "details")
          /\ IF ok
             THEN /\ pc' = "details_ns"
                  /\ ci' = ci
                  /\ report' = [report EXCEPT !.ni = 1, !.ns_checked = 0,
                                   !.total_runners = 0, !.running_count = 0,
                                   !.not_running_count = 0]
             ELSE pc' = "details" /\ ci' = ci + 1 /\ UNCHANGED report
    /\ UNCHANGED <<catalog, args, kubectl, clusters, futures, OUTPUT_FILE,
                   TEMP_OUTPUT, queryLog, rows, delete_script, confirm, bash,
                   credentials>>

\* lines 142-168: the namespaces of the cluster are queried one after the other
DetailsQuery ==
    /\ pc = "details_ns"
    /\ report.ni <= Len(clusters[ci].order)
    /\ \E out \in kubectl :
          /\ query(clusters[ci].key, clusters[ci].order[report.ni], out, "details")
          /\ CASE out.kind = "CalledProcessError" ->
                    pc' = pc /\ report' = [report EXCEPT !.ni = @ + 1]
               [] out.kind = "OSError" ->
                    pc' = "traceback" /\ UNCHANGED report
               [] out.kind = "ok" ->
                    LET lines == out.table
                        counted == Len(lines) > 0 /\ startswith_NAME(lines[1])
                        runner_lines == IF counted THEN Tail(lines) ELSE <<>>
                        n == Cardinality(running_lines(runner_lines))
                    IN  /\ pc' = pc
                        /\ report' = [report EXCEPT
                              !.ni = @ + 1,
                              !.ns_checked = @ + 1,
                              !.total_runners = @ + Len(runner_lines),
                              !.running_count = @ + n,
                              !.not_running_count = @ + Len(runner_lines) - n]
    /\ UNCHANGED <<catalog, args, kubectl, clusters, ci, context, futures, OUTPUT_FILE,
                   TEMP_OUTPUT, authLog, rows, delete_script, confirm, bash,
                   credentials>>

\* lines 169-174: the summary of the cluster is printed
DetailsSummary ==
    /\ pc = "details_ns"
    /\ report.ni > Len(clusters[ci].order)
    /\ report' = [report EXCEPT !.printed = Append(@,
                     [key |-> clusters[ci].key,
                      ns_checked |-> report.ns_checked,
                      total_runners |-> report.total_runners,
                      running_count |-> report.running_count,
                      not_running_count |-> report.not_running_count])]
    /\ ci' = ci + 1
    /\ pc' = "details"
    /\ UNCHANGED <<catalog, args, kubectl, clusters, context, futures, OUTPUT_FILE,
                   TEMP_OUTPUT, authLog, queryLog, rows, delete_script, confirm, bash,
                   credentials>>

\* line 175
DetailsExit ==
    /\ pc = "details"
    /\ ci > Len(clusters)
    /\ pc' = "exit0"
    /\ UNCHANGED <<catalog, args, kubectl, clusters, ci, context, futures, OUTPUT_FILE,
                   TEMP_OUTPUT, authLog, queryLog, rows, report, delete_script,
                   confirm, bash,
                   credentials>>

----------------------------------------------------------------------------
(* The inputs of a run *)

NsName(i) == "ns" \o ToString(i)

\* a catalog file of one cluster with m namespaces
OneCluster(m) == [i \in 1..m |-> <<"c1", "api1", NsName(i)>>]

\* a catalog file of two clusters; the rows of c1 are not adjacent and one of
\* them comes twice
TwoClusters ==
    <<<<"c1", "api1", "ns1">>, <<"c2", "api2", "ns1">>, <<"c1", "api1", "ns2">>,
      <<"c1", "api1", "ns1">>>>

Catalogs ==
    {[exists |-> TRUE, rows |-> OneCluster(m)] : m \in 1..MaxNamespaces}
    \cup {[exists |-> TRUE, rows |-> TwoClusters]}

MissingCatalog == [exists |-> FALSE, rows |-> <<>>]

\* the command lines: the option, --org and -AllOrgs
ArgSet ==
    {[option |-> o, org_filter |-> "", all_orgs |-> FALSE] :
        o \in {"", "summary", "details"}}
    \cup {[option |-> o, org_filter |-> f, all_orgs |-> b] :
            o \in {"running", "pending", "failed", "DeletePending", "DeleteFailed"},
            f \in {"", "ACME"}, b \in BOOLEAN}

\* lines of the custom-columns output: NAME CONFIG_URL RUNNERID READY TOTAL AGE
LineRunning == <<"r1", "https://github.com/acme", "101", "1", "1", "2026-01-01T00:05:00Z">>
LinePending == <<"r2", "https://github.com/Acme", "102", "1", "2", "<none>">>
LineFailedAcme == <<"r3", "https://github.com/acme", "103", "0", "1", "2026-01-01T00:05:00Z">>
LineFailedAcme2 == <<"r4", "https://github.com/Acme", "<none>", "0", "0", "2026-01-01T00:09:30Z">>
LineFailedOther == <<"r5", "https://github.com/other", "105", "0", "2", "2025-12-31T23:00:00Z">>
LineShort == <<"r6", "https://github.com/acme">>

\* the default output of kubectl get ephemeralrunner (details mode)
TableHeader == <<"NAME", "GITHUB", "CONFIG", "URL", "RUNNERID", "STATUS", "AGE">>
TableLine(line, phase) == <<line[1], line[2], line[3], phase, "5m">>

Ok(lines, table) == [kind |-> "ok", lines |-> lines, table |-> table]
CalledProcessError == [kind |-> "CalledProcessError", lines |-> <<>>, table |-> <<>>]
OSError == [kind |-> "OSError", lines |-> <<>>, table |-> <<>>]

\* the answers of kubectl in the runs of Spec
Answers1 ==
    {CalledProcessError, OSError,
     Ok(<<>>, <<<<"No", "resources", "found">>>>),
     Ok(<<LineRunning, LinePending>>,
        <<TableHeader, TableLine(LineRunning, "Running"), TableLine(LinePending, "Pending")>>),
     Ok(<<LineFailedAcme, LineShort, LineFailedAcme2>>,
        <<TableHeader, TableLine(LineFailedAcme, "Failed"), TableLine(LineFailedAcme2, "1")>>),
     Ok(<<LineFailedOther>>, <<TableHeader, TableLine(LineFailedOther, "Failed")>>)}

\* the canonical file a previous run left
StaleSnapshot ==
    <<Header, <<"old", "api0", "ns0", "r0", "https://github.com/acme", "acme", "100",
                "9m", "Failed">>>>

InitWith(cat, a, k) ==
    /\ pc = "start"
    /\ catalog = cat
    /\ args = a
    /\ kubectl = k
    /\ clusters = <<>>
    /\ ci = 0
    /\ context = <<"", "">>
    /\ futures = NoFutures
    /\ OUTPUT_FILE = <<>>
    /\ TEMP_OUTPUT = StaleSnapshot
    /\ authLog = EmptyBag
    /\ queryLog = EmptyBag
    /\ rows = <<>>
    /\ report = NoReport
    /\ delete_script = [written |-> FALSE, name |-> <<>>, cmds |-> <<>>]
    /\ confirm = [typed |-> "", value |-> ""]
    /\ bash = NoBash
    /\ credentials = [username |-> "", password |-> ""]

Init ==
    \E cat \in Catalogs \cup {MissingCatalog}, a \in ArgSet : InitWith(cat, a, Answers1)

Next ==
    \/ CheckFile
    \/ ReadInputs
    \/ OpenOutput
    \/ Authenticate
    \/ Submit
    \/ StartScan
    \/ FinishScan
    \/ Consume
    \/ ExecutorExit
    \/ Traceback
    \/ FinishCollection
    \/ Usage
    \/ Details
    \/ DetailsAuthenticate
    \/ DetailsQuery
    \/ DetailsSummary
    \/ DetailsExit
    \/ ReadSnapshot
    \/ Summary
    \/ StatusReport
    \/ DeletePlan
    \/ Confirm
    \/ BashLine
    \/ BashExit

Spec == Init /\ [][Next]_vars

----------------------------------------------------------------------------
(* The worker pool: the collection phase on a cluster with more namespaces   *)
(* than worker threads, followed by a second cluster; every query answers    *)
(* with no runner                                                            *)

PoolCatalog ==
    [exists |-> TRUE,
     rows |-> OneCluster(PoolNamespaces) \o <<<<"c2", "api2", "ns1">>>>]

NoRunners == Ok(<<>>, <<<<"No", "resources", "found">>>>)

InitPool ==
    InitWith(PoolCatalog, [option |-> "", org_filter |-> "", all_orgs |-> FALSE],
             {NoRunners})

NextPool ==
    \/ CheckFile
    \/ ReadInputs
    \/ OpenOutput
    \/ Authenticate
    \/ Submit
    \/ StartScan
    \/ FinishScan
    \/ Consume
    \/ ExecutorExit
    \/ FinishCollection
    \/ Usage

SpecPool == InitPool /\ [][NextPool]_vars

----------------------------------------------------------------------------
(* The classifier: runs on one cluster with one namespace whose query        *)
(* answers with one line, over all pairs of READY and TOTAL tokens           *)

ReplicaTokens == {"0", "1", "2", "<none>"}

OneLine(ready, total) ==
    <<"r1", "https://github.com/acme", "101", ready, total, "2026-01-01T00:05:00Z">>

\* a line of seven fields
LineLong == <<"r7", "https://github.com/acme", "107", "1", "1", "2026-01-01T00:05:00Z", "x">>
\* lines whose CONFIG_URL has no "/", two, three and five segments
LineNoUrl == <<"r8", "<none>", "108", "1", "1", "2026-01-01T00:05:00Z">>
LineTwoSegments == <<"r9", "github.com/acme", "109", "1", "1", "2026-01-01T00:05:00Z">>
LineThreeSegments == <<"r10", "https://github.com", "110", "0", "1", "2026-01-01T00:05:00Z">>
LineRepoUrl == <<"r11", "https://github.com/acme/repo", "111", "1", "1", "2026-01-01T00:05:00Z">>

\* the default table for the runner lines `lines`
Table(lines) == <<TableHeader>> \o [i \in 1..Len(lines) |-> TableLine(lines[i], "Running")]

AnswersLine ==
    {Ok(<<OneLine(ready, total)>>, <<TableHeader, TableLine(OneLine(ready, total), ready)>>) :
        ready \in ReplicaTokens, total \in ReplicaTokens}
    \cup {OSError}
    \cup {Ok(<<LineRunning, LineShort, LinePending>>, Table(<<LineRunning, LinePending>>)),
          Ok(<<LineRunning, LineLong, LinePending>>,
             Table(<<LineRunning, LineLong, LinePending>>)),
          Ok(<<LineNoUrl, LineRepoUrl>>, Table(<<LineNoUrl, LineRepoUrl>>)),
          Ok(<<LineRunning, LineTwoSegments>>, Table(<<LineRunning, LineTwoSegments>>)),
          Ok(<<LineThreeSegments>>, Table(<<LineThreeSegments>>))}

InitLine ==
    \E a \in ArgSet :
        InitWith([exists |-> TRUE, rows |-> <<<<"c1", "api1", "ns1">>>>], a, AnswersLine)

SpecLine == InitLine /\ [][Next]_vars

----------------------------------------------------------------------------
(* Vocabulary of the properties *)

DeleteOptions == {"DeletePending", "-DeletePending", "DeleteFailed", "-DeleteFailed"}

\* the answers that count as affirmative: "y" or "yes" after strip and lower
Affirmative == {"y", "yes"}

\* the collection loop ran to its end and the canonical file was written
Collected ==
    \/ pc \in {"report", "dispatch", "confirm", "bash", "done", "exit0",
               "details", "details_ns"}
    \/ pc = "traceback" /\ report.kind = "details"

\* the collection is over, normally or by a traceback
CollectionOver == Collected \/ pc = "traceback"

\* the data rows of the report file that come from namespace ns of cluster `key`
RowsOf(file, key, ns) ==
    SelectIdx(file, {i \in 2..Len(file) :
                        file[i][1] = key[1] /\ file[i][2] = key[2] /\ file[i][3] = ns}, 1)

Authenticated(key) ==
    \E a \in BagToSet(authLog) : a.key = key /\ a.ok /\ a.phase = "collect"

AuthFailed(key) ==
    \E a \in BagToSet(authLog) : a.key = key /\ ~a.ok /\ a.phase = "collect"

CollectQueries == {q \in BagToSet(queryLog) : q.phase = "collect"}

RECURSIVE SumOver(_, _)
\* the sum of the numbers f[x] for x in S
SumOver(f, S) ==
    IF S = {} THEN 0
    ELSE LET x == CHOOSE x \in S : TRUE IN f[x] + SumOver(f, S \ {x})

\* the collect query that scan f asked, when it was answered with text
AnswerOf(f) ==
    {q \in CollectQueries : q.key = clusters[f[1]].key /\ q.ns = f[2] /\ q.out.kind = "ok"}

\* the scans that have returned or raised
Ended == {f \in DOMAIN futures : futures[f].st \in {"finished", "yielded"}}

\* the answers the details mode got for the namespaces of cluster `key`
DetailsAnswers(key) ==
    {q \in BagToSet(queryLog) : q.phase = "details" /\ q.key = key /\ q.out.kind = "ok"}

\* the runners of answer `out` that the classifier puts in one of `states`
Classified(out, states) ==
    {j \in 1..Len(out.lines) :
        Len(out.lines[j]) = 6 /\ Status(out.lines[j][4], out.lines[j][5]) \in states}

\* the data rows of a report file whose organization is `org` ignoring case and,
\* when states is given, whose status is in it
RecordsOf(file, org, states) ==
    {i \in 2..Len(file) : lower(file[i][6]) = org /\ file[i][9] \in states}

----------------------------------------------------------------------------
(* C1: the delete script runs only in a delete mode and only after an       *)
(* affirmative answer; after any other answer no delete action has run and   *)
(* the script file is the plan as it was written before the prompt.          *)
C1_DeleteOnlyWhenConfirmed ==
    /\ (pc = "bash" \/ bash.started \/ bash.attempted > 0) =>
          /\ args.option \in DeleteOptions
          /\ confirm.value \in Affirmative
          /\ delete_script.written
    /\ (pc = "done" /\ args.option \in DeleteOptions /\ confirm.value \notin Affirmative) =>
          /\ ~bash.started
          /\ bash.attempted = 0
          /\ delete_script.written
          /\ delete_script.cmds = report.delete_cmds
    /\ args.option \notin DeleteOptions => ~delete_script.written /\ pc # "confirm"

\* delete-failed --org ACME on two Failed acme runners and one Failed other
\* runner: a plan of two actions, declined
C1_Witness ==
    /\ pc = "done"
    /\ args = [option |-> "DeleteFailed", org_filter |-> "ACME", all_orgs |-> FALSE]
    /\ confirm.typed = "n"
    /\ Len(rows) = 3
    /\ Len(delete_script.cmds) = 2
    /\ bash.attempted = 0

----------------------------------------------------------------------------
(* C2: a scan exists only for a cluster whose authentication of this run     *)
(* succeeded; a cluster whose authentication failed has no scan, no query    *)
(* and no row, and the loop went on to the next cluster.                     *)
C2_ScanOnlyAfterAuthentication ==
    /\ \A f \in DOMAIN futures :
          /\ Authenticated(clusters[f[1]].key)
          /\ futures[f].st = "running" => context = clusters[f[1]].key
    /\ \A q \in CollectQueries : Authenticated(q.key) /\ q.context = q.key
    /\ \A j \in 1..Len(clusters) :
          AuthFailed(clusters[j].key) =>
             /\ ~CollectionOver => ci > j
             /\ \A f \in DOMAIN futures : f[1] # j
             /\ \A q \in CollectQueries : q.key # clusters[j].key
             /\ \A ns \in clusters[j].namespaces :
                   RowsOf(OUTPUT_FILE, clusters[j].key, ns) = <<>>
    /\ Collected =>
          \A j \in 1..Len(clusters) :
             Authenticated(clusters[j].key) \/ AuthFailed(clusters[j].key)

\* c1 failed to authenticate, c2 was scanned and contributed rows
C2_Witness ==
    /\ pc = "report"
    /\ Len(clusters) = 2
    /\ AuthFailed(clusters[1].key)
    /\ Authenticated(clusters[2].key)
    /\ RowsOf(OUTPUT_FILE, clusters[2].key, "ns1") # <<>>

----------------------------------------------------------------------------
(* C3: once the collection is over, every namespace of an authenticated      *)
(* cluster was queried at most once and the report file holds all the rows   *)
(* parsed from its answer when the query succeeded and none when it failed,  *)
(* whatever happened to the other namespaces.                                *)
C3_AllOrNothingPerNamespace ==
    CollectionOver =>
       \A q \in CollectQueries :
          /\ CopiesIn(q, queryLog) = 1
          /\ \A q2 \in CollectQueries : (q2.key = q.key /\ q2.ns = q.ns) => q2 = q
          /\ RowsOf(OUTPUT_FILE, q.key, q.ns) =
                (IF q.out.kind = "ok"
                 THEN parse_lines(q.key[1], q.key[2], q.ns, q.out.lines, 1).rows
                 ELSE <<>>)

----------------------------------------------------------------------------
(* C4: whatever the authentications and the queries answer, the collection   *)
(* is not aborted: no exception leaves the loop, and after it every cluster  *)
(* was visited and the canonical file is this run's report file.             *)
C4_CollectionNeverAborts ==
    /\ pc # "raising"
    /\ pc = "traceback" => report.kind = "details"
    /\ Collected =>
          /\ \A j \in 1..Len(clusters) :
                Authenticated(clusters[j].key) \/ AuthFailed(clusters[j].key)
          /\ OUTPUT_FILE # <<>>
          /\ TEMP_OUTPUT = OUTPUT_FILE

----------------------------------------------------------------------------
(* C5: at most MAX_PARALLEL scans are in flight, and all of them are scans   *)
(* of the cluster the loop is at, run in that cluster's context.             *)
C5_BoundedInFlight ==
    /\ Cardinality(InFlight) <= MAX_PARALLEL
    /\ \A f \in InFlight : f[1] = ci /\ context = clusters[ci].key
    /\ \A f \in DOMAIN futures : f[1] < ci => futures[f].st = "yielded"

\* all worker threads busy, an eleventh scan waiting
C5_Witness ==
    /\ Cardinality(InFlight) = MAX_PARALLEL
    /\ Cardinality(DOMAIN futures) > MAX_PARALLEL
    /\ InState("pending") # {}

----------------------------------------------------------------------------
(* C6: after the collection the set of rows of the report file is the union  *)
(* of the row lists the scans returned, whatever the order of completion.    *)
C6_SnapshotIsUnionOfScans ==
    Collected =>
       /\ Range(Tail(OUTPUT_FILE)) =
             UNION {Range(futures[f].rows) : f \in DOMAIN futures}
       /\ \A f \in DOMAIN futures :
             RowsOf(OUTPUT_FILE, clusters[f[1]].key, f[2]) = futures[f].rows

\* two scans of one cluster that both returned rows, written in the order
\* opposite to their submission
C6_Witness ==
    /\ pc = "report"
    /\ Len(OUTPUT_FILE) >= 4
    /\ OUTPUT_FILE[2][3] = "ns2"
    /\ OUTPUT_FILE[Len(OUTPUT_FILE)][3] = "ns1"
    /\ OUTPUT_FILE[2][1] = "c1"
    /\ OUTPUT_FILE[Len(OUTPUT_FILE)][1] = "c1"

----------------------------------------------------------------------------
(* C7: the status of a line is Running iff READY equals TOTAL, both are      *)
(* non-empty and READY is not "0"; otherwise Failed iff READY is "0";        *)
(* otherwise Pending.                                                        *)
C7_Classifier ==
    \A f \in DOMAIN futures :
       (futures[f].st \in {"finished", "yielded"} /\ futures[f].exc = "") =>
          \A q \in CollectQueries :
             (q.ns = f[2] /\ q.out.kind = "ok" /\ Len(q.out.lines) = 1) =>
                LET ready == q.out.lines[1][4]
                    total == q.out.lines[1][5]
                    status == futures[f].rows[1][9]
                    running == ready = total /\ ready # "" /\ total # "" /\ ready # "0"
                IN  /\ Len(futures[f].rows) = 1
                    /\ status \in {"Running", "Failed", "Pending"}
                    /\ status = "Running" <=> running
                    /\ status = "Failed" <=> (~running /\ ready = "0")
                    /\ status = "Pending" <=> (~running /\ ready # "0")
                    /\ (ready = "2" /\ total = "2") => status = "Running"
                    /\ (ready = "0" /\ total = "2") => status = "Failed"
                    /\ (ready = "1" /\ total = "2") => status = "Pending"
                    /\ (ready = "0" /\ total = "0") => status = "Failed"

\* the line with READY "0" and TOTAL "0" was classified
C7_Witness ==
    \E f \in DOMAIN futures, q \in CollectQueries :
       /\ futures[f].st = "yielded"
       /\ q.out.kind = "ok"
       /\ q.out.lines[1][4] = "0"
       /\ q.out.lines[1][5] = "0"
       /\ OUTPUT_FILE[2][9] = "Failed"

----------------------------------------------------------------------------
(* C8: the plan holds one delete action per row that the status-filtered     *)
(* report selects for the same status, filter and flag, in file order; its   *)
(* size is the grand total of that report; building it asks no cluster.      *)
C8_PlanEqualsFilteredReport ==
    /\ [](report.kind = "delete" =>
            LET same == status_report(rows, delete_status(args.option), args)
            IN  /\ report.delete_cmds =
                      [i \in 1..Len(same.runners) |->
                          <<"tkgi get-kubeconfig", same.runners[i]["Cluster"], "&&",
                            "kubectl -n", same.runners[i]["Namespace"],
                            "delete pod", same.runners[i]["Runner_Name"]>>]
                /\ Len(report.delete_cmds) = same.grand_total
                /\ report.grand_total = same.grand_total
                /\ delete_script.cmds = report.delete_cmds
                /\ \A q \in BagToSet(queryLog) : q.phase = "collect"
                /\ \A a \in BagToSet(authLog) : a.phase = "collect")
    /\ [][pc = "dispatch" => (queryLog' = queryLog /\ authLog' = authLog)]_vars

\* DeleteFailed --org ACME without -AllOrgs on three Failed rows, one of another
\* organization: two actions
C8_Witness ==
    /\ pc = "confirm"
    /\ args = [option |-> "DeleteFailed", org_filter |-> "ACME", all_orgs |-> FALSE]
    /\ Len(rows) = 5
    /\ Len(report.delete_cmds) = 2
    /\ report.delete_cmds[1][7] = "r3"
    /\ report.delete_cmds[2][7] = "r4"

----------------------------------------------------------------------------
(* C9, as stated: in a delete mode every answer that is "y" or "yes" after   *)
(* strip and lower starts the execution of the plan.                         *)
C9_YesExecutes ==
    (pc \in {"bash", "done"} /\ args.option \in DeleteOptions
        /\ confirm.typed \in {"y", "Y", " y ", "yes", "YES", "yes "}) => bash.started

(* C9, amended: in a delete mode every answer that is "y" after strip and    *)
(* lower starts the execution of the plan, and "yes" does not.               *)
C9_OnlyYExecutes ==
    /\ (pc \in {"bash", "done"} /\ args.option \in DeleteOptions
           /\ confirm.typed \in {"y", "Y", " y "}) => bash.started
    /\ (pc \in {"bash", "done"} /\ args.option \in DeleteOptions
           /\ confirm.typed \in {"yes", "YES", "yes "}) => ~bash.started /\ pc = "done"

\* the answer " y " ran a plan of two actions
C9_Witness ==
    /\ pc = "done"
    /\ confirm.typed = " y "
    /\ bash.started
    /\ bash.attempted = 2

----------------------------------------------------------------------------
(* C10: a run of the script attempts every action, in order and once,        *)
(* whatever the earlier actions did, and an action runs kubectl delete only  *)
(* when its own tkgi succeeded.                                              *)
C10_ActionsAreIndependent ==
    /\ pc = "bash" => bash.line = bash.attempted + 1
    /\ (pc = "done" /\ bash.started) => bash.attempted = Len(delete_script.cmds)
    /\ bash.attempted > 0 =>
          /\ bash.last.at = bash.attempted
          /\ bash.last.cmd = delete_script.cmds[bash.attempted]
          /\ bash.last.kubectl # "not run" <=> bash.last.tkgi

\* an action failed and a later action deleted its runner
C10_Witness ==
    /\ pc = "done"
    /\ bash.failed
    /\ bash.attempted >= 2
    /\ bash.last.kubectl = "deleted"

----------------------------------------------------------------------------
(* C11: in a delete mode the plan is listed and written to the script file   *)
(* named after the target status before the operator is asked and before    *)
(* any delete action runs; the file is not touched afterwards, and every     *)
(* action that runs is a line of the file written in this run.               *)
C11_PlanWrittenBeforePrompt ==
    /\ [](pc \in {"confirm", "bash"} \/ confirm.typed # "" \/ bash.started =>
            /\ args.option \in DeleteOptions
            /\ report.kind = "delete"
            /\ delete_script.written
            /\ delete_script.cmds = report.delete_cmds
            /\ Len(delete_script.cmds) = report.grand_total
            /\ delete_script.name =
                  <<"/tmp/delete_",
                    IF args.option \in {"DeleteFailed", "-DeleteFailed"}
                    THEN "failed" ELSE "pending",
                    "_runners.sh">>
            /\ bash.attempted > 0 =>
                  /\ bash.last.at \in 1..Len(delete_script.cmds)
                  /\ bash.last.cmd = delete_script.cmds[bash.last.at])
    /\ [][(confirm' # confirm \/ bash' # bash) =>
             (delete_script.written /\ delete_script' = delete_script /\ report' = report)]_vars
    /\ [][delete_script' # delete_script =>
             (pc = "dispatch" /\ ~delete_script.written /\ confirm.typed = ""
              /\ ~bash.started)]_vars

\* a plan of two actions was written and confirmed, and its second action ran
C11_Witness ==
    /\ pc = "bash"
    /\ args.option = "DeleteFailed"
    /\ Len(delete_script.cmds) = 2
    /\ bash.last.at = 2
    /\ bash.last.kubectl = "deleted"

----------------------------------------------------------------------------
(* C12: in the summary, status-filtered and details modes no authentication  *)
(* and no workload query is issued once the collection has finished, and the *)
(* canonical file stays as the collection left it.                           *)
C12_ReportingAsksNoCluster ==
    /\ \A a \in BagToSet(authLog) : a.phase = "collect"
    /\ \A q \in BagToSet(queryLog) : q.phase = "collect"
    /\ Collected => TEMP_OUTPUT = OUTPUT_FILE

----------------------------------------------------------------------------
(* C13: the summary of the snapshot of this run has one line per             *)
(* organization name ignoring case; on every line running + failed + pending *)
(* is the total, which is the number of records of the organization; each    *)
(* grand total is the sum of its column, and the grand total is the number   *)
(* of records of the snapshot.                                               *)
C13_SummaryAddsUp ==
    report.kind = "summary" =>
       LET summary == report.summary
           grand == report.grand
           All == {"Running", "Failed", "Pending"}
       IN  /\ DOMAIN summary = {lower(TEMP_OUTPUT[i][6]) : i \in 2..Len(TEMP_OUTPUT)}
           /\ \A org \in DOMAIN summary :
                 /\ summary[org].running + summary[org].failed + summary[org].pending
                       = summary[org].total
                 /\ summary[org].total = Cardinality(RecordsOf(TEMP_OUTPUT, org, All))
                 /\ summary[org].running =
                       Cardinality(RecordsOf(TEMP_OUTPUT, org, {"Running"}))
                 /\ summary[org].failed =
                       Cardinality(RecordsOf(TEMP_OUTPUT, org, {"Failed"}))
                 /\ summary[org].pending =
                       Cardinality(RecordsOf(TEMP_OUTPUT, org, {"Pending"}))
           /\ \A k \in {"running", "failed", "pending", "total"} :
                 grand[k] = SumOver([org \in DOMAIN summary |-> summary[org][k]],
                                    DOMAIN summary)
           /\ grand.total = Len(TEMP_OUTPUT) - 1
           /\ grand.running + grand.failed + grand.pending = grand.total

\* a summary of two organizations, one of them written as acme and as Acme,
\* with runners of the three statuses
C13_Witness ==
    /\ pc = "done"
    /\ report.kind = "summary"
    /\ DOMAIN report.summary = {"acme", "other"}
    /\ report.summary["acme"].running > 0
    /\ report.summary["acme"].pending > 0
    /\ report.summary["other"].failed > 0
    /\ report.grand.total = 3

----------------------------------------------------------------------------
(* C14: the status-filtered report for status S lists exactly the records of *)
(* the snapshot whose status is S ignoring case and whose organization       *)
(* passes: every organization when -AllOrgs is given or no filter is given,  *)
(* otherwise the organizations equal to the filter ignoring case.            *)
C14_StatusFilter ==
    report.kind = "status" =>
       LET S == args.option
           Passes(org) ==
              IF args.all_orgs THEN TRUE
              ELSE IF args.org_filter = "" THEN TRUE
              ELSE lower(org) = lower(args.org_filter)
           wanted == {i \in 2..Len(TEMP_OUTPUT) :
                         lower(TEMP_OUTPUT[i][9]) = lower(S) /\ Passes(TEMP_OUTPUT[i][6])}
       IN  /\ report.runners = DictReader(SelectIdx(TEMP_OUTPUT, {1} \cup wanted, 1))
           /\ report.grand_total = Cardinality(wanted)
           /\ \A org \in DOMAIN report.count :
                 report.count[org] =
                    Cardinality({i \in wanted : TEMP_OUTPUT[i][6] = org})

\* failed --org ACME -AllOrgs lists the Failed runners of every organization
C14_Witness ==
    /\ pc = "done"
    /\ args = [option |-> "failed", org_filter |-> "ACME", all_orgs |-> TRUE]
    /\ Len(rows) = 5
    /\ Len(report.runners) = 3
    /\ \E i \in 1..3 : report.runners[i]["Org_Name"] = "other"
    /\ \E i \in 1..3 : report.runners[i]["Org_Name"] = "Acme"

----------------------------------------------------------------------------
(* C15: when the catalog file is missing the run goes from its start to the  *)
(* exit with code 1 and nowhere else: no credential is asked, no cluster is  *)
(* authenticated, no namespace is queried and no report file is written.     *)
C15_MissingCatalogExitsFirst ==
    /\ ~catalog.exists =>
          /\ pc \in {"start", "exit1"}
          /\ clusters = <<>>
          /\ authLog = EmptyBag
          /\ queryLog = EmptyBag
          /\ futures = NoFutures
          /\ OUTPUT_FILE = <<>>
          /\ TEMP_OUTPUT = StaleSnapshot
          /\ ~delete_script.written
    /\ pc = "exit1" => ~catalog.exists

\* the run without catalog ended with exit code 1
C15_Witness ==
    /\ pc = "exit1"
    /\ catalog = MissingCatalog
    /\ args.option = "DeleteFailed"

----------------------------------------------------------------------------
(* C16: every six-field line of an answer yields a record; its age is the    *)
(* number of whole minutes from the creation timestamp to now followed by    *)
(* "m" when the timestamp parses ("5m" for a runner created five minutes     *)
(* before now), and "N/A" when it does not.                                  *)
C16_AgeLabel ==
    \A f \in DOMAIN futures :
       (futures[f].st \in {"finished", "yielded"} /\ futures[f].exc = "") =>
          \A q \in CollectQueries :
             (q.key = clusters[f[1]].key /\ q.ns = f[2] /\ q.out.kind = "ok") =>
                \A i \in 1..Len(q.out.lines) :
                   Len(q.out.lines[i]) = 6 =>
                      \E j \in 1..Len(futures[f].rows) :
                         LET ts == q.out.lines[i][6]
                             age == futures[f].rows[j][8]
                         IN  /\ futures[f].rows[j][4] = q.out.lines[i][1]
                             /\ strptime_ok(ts) =>
                                   /\ now - strptime(ts) >= 0
                                   /\ age = ToString((now - strptime(ts)) \div 60) \o "m"
                             /\ ts = "2026-01-01T00:05:00Z" => age = "5m"
                             /\ ~strptime_ok(ts) => age = "N/A"

\* the report file holds a runner aged "5m", one aged "0m" and one "N/A"
C16_Witness ==
    /\ pc = "report"
    /\ \E i \in 2..Len(OUTPUT_FILE) : OUTPUT_FILE[i][8] = "5m"
    /\ \E i \in 2..Len(OUTPUT_FILE) : OUTPUT_FILE[i][8] = "0m"
    /\ \E i \in 2..Len(OUTPUT_FILE) : OUTPUT_FILE[i][8] = "N/A"

----------------------------------------------------------------------------
(* C17: a cluster is authenticated only when every scan submitted so far has *)
(* finished and its rows are in the report file; a running scan is a scan of *)
(* the cluster the loop is at, every query ran in the context of its own     *)
(* cluster, and every row names the cluster whose context answered it.       *)
C17_ClusterBarrier ==
    /\ [][authLog' # authLog =>
             \A f \in DOMAIN futures :
                /\ futures[f].st = "yielded"
                /\ futures[f].exc = ""
                /\ RowsOf(OUTPUT_FILE, clusters[f[1]].key, f[2]) = futures[f].rows]_vars
    /\ [](\A f \in InFlight : f[1] = ci /\ context = clusters[f[1]].key)
    /\ [](\A q \in CollectQueries : q.context = q.key)
    /\ [](\A i \in 2..Len(OUTPUT_FILE) :
             \E q \in CollectQueries :
                /\ q.context = <<OUTPUT_FILE[i][1], OUTPUT_FILE[i][2]>>
                /\ q.ns = OUTPUT_FILE[i][3])

\* the scan of the second cluster runs after both scans of the first cluster
\* returned rows
C17_Witness ==
    /\ pc = "as_completed"
    /\ ci = 2
    /\ DOMAIN futures = {<<1, "ns1">>, <<1, "ns2">>, <<2, "ns1">>}
    /\ futures[<<2, "ns1">>].st = "running"
    /\ futures[<<1, "ns1">>].rows # <<>>
    /\ futures[<<1, "ns2">>].rows # <<>>
    /\ context = <<"c2", "api2">>

----------------------------------------------------------------------------
(* C18: the report file changes only when the main thread creates it or      *)
(* appends the whole row list of one finished scan behind what is there; a   *)
(* step of a scan changes the record of that scan alone and leaves the file  *)
(* alone; so the rows of every consumed scan stand in the file as one block. *)
C18_SingleWriter ==
    /\ [][OUTPUT_FILE' # OUTPUT_FILE =>
             \/ pc = "open" /\ OUTPUT_FILE' = <<Header>> /\ futures' = futures
             \/ /\ pc = "as_completed"
                /\ \E f \in DOMAIN futures :
                      /\ futures[f].st = "finished"
                      /\ futures' = [futures EXCEPT ![f].st = "yielded"]
                      /\ OUTPUT_FILE' = OUTPUT_FILE \o futures[f].rows]_vars
    /\ [][\A f \in DOMAIN futures :
             (futures'[f] # futures[f] /\ futures'[f].st \in {"running", "finished"}) =>
                /\ OUTPUT_FILE' = OUTPUT_FILE
                /\ pc' = pc
                /\ \A g \in DOMAIN futures \ {f} : futures'[g] = futures[g]]_vars
    /\ [](\A f \in DOMAIN futures :
             (futures[f].st = "yielded" /\ futures[f].exc = "") =>
                \E k \in 1..Len(OUTPUT_FILE) :
                   /\ k + Len(futures[f].rows) <= Len(OUTPUT_FILE)
                   /\ SubSeq(OUTPUT_FILE, k + 1, k + Len(futures[f].rows)) = futures[f].rows)

\* a scan finished with rows while the rows of another scan, which was
\* submitted after it, were already in the file
C18_Witness ==
    /\ pc = "as_completed"
    /\ DOMAIN futures = {<<1, "ns1">>, <<1, "ns2">>}
    /\ futures[<<1, "ns1">>].st = "finished"
    /\ Len(futures[<<1, "ns1">>].rows) = 2
    /\ futures[<<1, "ns2">>].st = "yielded"
    /\ Len(OUTPUT_FILE) = 3
    /\ OUTPUT_FILE[3][3] = "ns2"

----------------------------------------------------------------------------
(* C19: whatever text the query returns, the scan does not raise on the      *)
(* number of fields of a line: it returns, in order, the records of the      *)
(* lines of six fields, and the run is not aborted by a line of fewer or     *)
(* more fields.                                                              *)
C19_MalformedRowsTolerated ==
    /\ \A f \in Ended : futures[f].exc # "ValueError"
    /\ \A f \in Ended : \A q \in AnswerOf(f) :
          futures[f].exc = "" =>
             [j \in 1..Len(futures[f].rows) |-> futures[f].rows[j][4]] =
                LET six == SelectIdx(q.out.lines,
                              {i \in 1..Len(q.out.lines) : Len(q.out.lines[i]) = 6}, 1)
                IN  [j \in 1..Len(six) |-> six[j][1]]

----------------------------------------------------------------------------
(* C20: the extraction of the organization never raises, and the             *)
(* organization of a record is the fourth "/"-separated segment of its       *)
(* config URL when there are four or more segments and "" otherwise.         *)
C20_OrgExtractionTotal ==
    /\ \A f \in Ended : futures[f].exc # "IndexError"
    /\ \A f \in Ended :
          futures[f].exc = "" =>
             \A j \in 1..Len(futures[f].rows) :
                LET segments == split_slash(futures[f].rows[j][5])
                IN  futures[f].rows[j][6] =
                       (IF Len(segments) >= 4 THEN segments[4] ELSE "")

----------------------------------------------------------------------------
(* C21: a line whose READY token is not a number, or whose READY token is    *)
(* not "0" while its TOTAL is missing, is classified Pending, also when both *)
(* tokens are the same placeholder; a record classified Running has a READY  *)
(* token that is a positive number.                                          *)
C21_PlaceholderIsPending ==
    \A f \in Ended : \A q \in AnswerOf(f) :
       (futures[f].exc = "" /\ Len(q.out.lines) = 1 /\ Len(q.out.lines[1]) = 6) =>
          LET ready == q.out.lines[1][4]
              total == q.out.lines[1][5]
              status == futures[f].rows[1][9]
              Numbers == {"0", "1", "2"}
          IN  /\ ready \notin Numbers => status = "Pending"
              /\ (total \notin Numbers /\ ready # "0") => status = "Pending"
              /\ status = "Running" => ready \in Numbers \ {"0"}

----------------------------------------------------------------------------
(* C22: in the summary the details mode prints for a cluster, running plus   *)
(* not running is the total of the runners listed, the running counter is    *)
(* the number of the cluster's runners that the classifier calls Running,    *)
(* and the not-running counter is the number it calls Failed or Pending.     *)
C22_DetailsCountsMatchClassifier ==
    report.kind = "details" =>
       \A i \in 1..Len(report.printed) :
          LET p == report.printed[i]
              Q == DetailsAnswers(p.key)
          IN  /\ p.running_count + p.not_running_count = p.total_runners
              /\ p.running_count =
                    SumOver([q \in Q |-> Cardinality(Classified(q.out, {"Running"}))], Q)
              /\ p.not_running_count =
                    SumOver([q \in Q |->
                               Cardinality(Classified(q.out, {"Failed", "Pending"}))], Q)

----------------------------------------------------------------------------
(* C23: no cluster is contacted before the credentials were given; every     *)
(* tkgi call is given the user name and the password of the prompt; in the   *)
(* collection the authenticator is called once for every (cluster, endpoint) *)
(* pair of the catalog, and a namespace of a pair is queried at most once,   *)
(* however many rows of the catalog name it.                                 *)
C23_CredentialsOnceAndReused ==
    /\ authLog # EmptyBag => credentials.username # ""
    /\ \A a \in BagToSet(authLog) :
          /\ \E i \in 1..(Len(a.cmd) - 1) :
                a.cmd[i] = "-u" /\ a.cmd[i + 1] = credentials.username
          /\ credentials.password \in Range(a.cmd)
    /\ \A a \in BagToSet(authLog) :
          a.phase = "collect" =>
             /\ CopiesIn(a, authLog) = 1
             /\ \A b \in BagToSet(authLog) :
                   (b.phase = "collect" /\ b.key = a.key) => b = a
    /\ \A j, k \in 1..Len(clusters) : clusters[j].key = clusters[k].key => j = k
    /\ Collected =>
          \A r \in Range(catalog.rows) :
             Authenticated(<<r[1], r[2]>>) \/ AuthFailed(<<r[1], r[2]>>)
    /\ \A q \in CollectQueries :
          /\ CopiesIn(q, queryLog) = 1
          /\ \A q2 \in CollectQueries : (q2.key = q.key /\ q2.ns = q.ns) => q2 = q

----------------------------------------------------------------------------
(* C24: the canonical file changes only in the step that ends the            *)
(* collection, when every cluster of the catalog was visited and every scan  *)
(* consumed, and it becomes this run's report file; until then it is what    *)
(* the previous run left, afterwards it stays equal to the report file, and  *)
(* the summary, status-filtered and delete modes read the records the scans  *)
(* of this run returned.                                                     *)
C24_SnapshotReplacedAtEnd ==
    /\ [][TEMP_OUTPUT' # TEMP_OUTPUT =>
             /\ pc = "cluster" /\ pc' = "report"
             /\ ci > Len(clusters)
             /\ \A j \in 1..Len(clusters) :
                   Authenticated(clusters[j].key) \/ AuthFailed(clusters[j].key)
             /\ \A f \in DOMAIN futures : futures[f].st = "yielded"
             /\ TEMP_OUTPUT' = OUTPUT_FILE
             /\ OUTPUT_FILE' = OUTPUT_FILE]_vars
    /\ [](~Collected => TEMP_OUTPUT = StaleSnapshot)
    /\ [](Collected => TEMP_OUTPUT = OUTPUT_FILE)
    /\ [](pc \in {"dispatch", "confirm", "bash", "done"} =>
             /\ rows = DictReader(OUTPUT_FILE)
             /\ Len(rows) = Len(OUTPUT_FILE) - 1
             /\ {<<rows[i]["Cluster"], rows[i]["API_Endpoint"], rows[i]["Namespace"],
                    rows[i]["Runner_Name"], rows[i]["GitHub_Config_URL"],
                    rows[i]["Org_Name"], rows[i]["Runner_ID"], rows[i]["Age"],
                    rows[i]["Status"]>> : i \in 1..Len(rows)} =
                   UNION {Range(futures[f].rows) : f \in DOMAIN futures})

\* the summary mode read the three records that the scans of two clusters
\* returned in this run
C24_Witness ==
    /\ pc = "dispatch"
    /\ args.option = "summary"
    /\ Len(clusters) = 2
    /\ Len(rows) = 3
    /\ rows[1]["Cluster"] = "c1"
    /\ rows[3]["Cluster"] = "c2"
    /\ TEMP_OUTPUT # StaleSnapshot

====
